---------------------------- MODULE Spec2Model ----------------------------
(***************************************************************************)
(* Caption reconciliation engine of the Meet transcript content script     *)
(* (src/content.js): the session state, the debounce and flush timers, the *)
(* observer lifecycle, the navigation poll, the startup restore and the    *)
(* popup's messages, as one state machine.                                 *)
(*                                                                         *)
(* The page is single-threaded: every handler runs to completion, so each  *)
(* handler is one action.  The environment (the page's DOM, its location,  *)
(* the wall clock, the popup) is nondeterministic.                         *)
(***************************************************************************)
EXTENDS Naturals, Sequences, FiniteSets

(***************************************************************************)
(* Bounds of the model.                                                    *)
(***************************************************************************)
\* longest transcript the model lets a reconcile build
MaxLen == 2
\* largest wall-clock reading (seconds since the page was loaded)
MaxClock == 1
\* the step of the timer clock, in milliseconds
TickMs == 1000
\* most direct children of a caption region, most nodes of one of them
MaxBlocks == 2
MaxNodes == 3

(***************************************************************************)
(* Data.  A caption text is a sequence of words; the words are numbered.   *)
(* Hi = <<1>> and "Hi there" = <<1, 2>>: the second continues the first,   *)
(* the first does not continue the second.                                 *)
(***************************************************************************)
Speakers == {"Alice", "Bob"}
Texts == {<<1>>, <<1, 2>>}
Meetings == {"abc-defg-hij", "klm-nopq-rst"}
\* the meeting of the page load that wrote what storage holds at startup
StoredMeeting == "abc-defg-hij"
\* caption container elements of the document; a call may replace its own
Containers == {"c1", "c2"}
\* getCaptionContainer() found no element with text
NoContainer == "none"

\* the timer periods, in milliseconds
DEBOUNCE_MS == 300
FLUSH_MS == 2000
\* toLocaleTimeString keeps the time of day: the seconds of one day
DaySeconds == 86400
\* formatTime of the clock reading t (seconds), as seconds since midnight
FormatTime(t) == t % DaySeconds

\* an absent value (undefined, a missing storage key, no element)
None == <<>>
Some(x) == <<x>>

\* String.prototype.startsWith on word sequences
StartsWith(text, prev) ==
    /\ Len(prev) <= Len(text)
    /\ \A i \in 1..Len(prev) : text[i] = prev[i]

\* what parseCaptions returns for a container that getCaptionContainer
\* accepted: one pair per well-formed block, in block order, never empty
Pairs == [speaker : Speakers, text : Texts]
Snapshots == {<<p>> : p \in Pairs} \cup {<<p, q>> : p \in Pairs, q \in Pairs}

VARIABLES
    transcript,             \* state.transcript
    lastBySpeaker,          \* state.lastBySpeaker; None where the key is absent
    observer,               \* what state.observer observes: "body" or a container
    debounceTimer,          \* TRUE while the debounce timeout is pending
    storageFlushTimer,      \* TRUE while the flush timeout is pending
    meetingId,              \* state.meetingId
    narrowObserverAttached, \* the narrowing latch
    storage,                \* chrome.storage.local: the two keys, None if absent
    getData,                \* the answer of init's storage read while in flight
    location,               \* the meeting id the page's URL yields now
    container,              \* what getCaptionContainer() returns now, or NoContainer
    now,                    \* the wall clock
    event,                  \* the handler that ran last, what it parsed, its outcome
    connected,              \* the targets of the connected MutationObservers
    region,                 \* the children of the element parseCaptions is given
    unseen,                 \* the caption region holds text no reconcile has read
    timeouts,               \* the pending setTimeout timers and what is left of each
    sinceMutation,          \* time since the last observer callback, up to DEBOUNCE_MS
    sinceWrite              \* time since the last storage write, up to FLUSH_MS

vars == <<transcript, lastBySpeaker, observer, debounceTimer, storageFlushTimer,
          meetingId, narrowObserverAttached, storage, getData, location,
          container, now, event, connected, region, unseen, timeouts,
          sinceMutation, sinceWrite>>

\* what only the refined specifications below follow
parsing == <<region>>
timing == <<timeouts, sinceMutation, sinceWrite>>
aux == <<region, unseen, timeouts, sinceMutation, sinceWrite>>

session == <<transcript, lastBySpeaker, meetingId>>

(***************************************************************************)
(* A transcript entry { ts, speaker, text }.  mid and old are history      *)
(* fields that no handler reads: mid is the meeting id in force when the   *)
(* entry was pushed, old becomes TRUE when a clear request is handled      *)
(* after the entry was pushed.                                             *)
(***************************************************************************)
Entry(ts, speaker, text, mid) ==
    [ts |-> ts, speaker |-> speaker, text |-> text, mid |-> mid, old |-> FALSE]

NoSpeakers == [s \in Speakers |-> None]

Ev(op, entries, changed) == [op |-> op, entries |-> entries, changed |-> changed]

(***************************************************************************)
(* parseCaptions.  A text is a sequence of characters; a caption region is *)
(* the sequence of its child elements (blocks); a block is the sequence of *)
(* its child nodes, each an element (el) or a text node, with the text it  *)
(* contains.                                                               *)
(***************************************************************************)
Whitespace == {" ", "\n"}
Letters == {"a"}
NodeTexts == {<<>>} \cup {<<c>> : c \in Letters \cup Whitespace}
Nodes == [el : {TRUE}, text : NodeTexts] \cup [el : {FALSE}, text : {<<"a">>}]
SeqsUpTo(S, n) == UNION {[1..k -> S] : k \in 0..n}
Blocks == SeqsUpTo(Nodes, MaxNodes)
Regions == SeqsUpTo(Blocks, MaxBlocks)

\* the speaker labels the parser makes up
Unknown == <<"Unknown">>
System == <<"System">>

RECURSIVE DropSpaces(_)
DropSpaces(t) ==
    IF t # <<>> /\ Head(t) \in Whitespace THEN DropSpaces(Tail(t)) ELSE t

Reverse(t) == [i \in 1..Len(t) |-> t[Len(t) + 1 - i]]

\* String.prototype.trim
Trim(t) == Reverse(DropSpaces(Reverse(DropSpaces(t))))

\* replace(/\s+/g, " ")
RECURSIVE Collapse(_)
Collapse(t) ==
    IF t = <<>> THEN <<>>
    ELSE IF Head(t) \in Whitespace
         THEN <<" ">> \o Collapse(DropSpaces(t))
         ELSE <<Head(t)>> \o Collapse(Tail(t))

Normalize(t) == Trim(Collapse(t))

\* Array.prototype.join with the separator sep
RECURSIVE Join(_, _)
Join(parts, sep) ==
    IF parts = <<>> THEN <<>>
    ELSE IF Len(parts) = 1 THEN parts[1]
    ELSE parts[1] \o sep \o Join(Tail(parts), sep)

IsElement(n) == n.el
\* Element.children and Node.textContent of a block
Children(block) == SelectSeq(block, IsElement)
TextOf(nodes) == Join([i \in 1..Len(nodes) |-> nodes[i].text], <<>>)
\* textContent of the region
TextContent(reg) == Join([i \in 1..Len(reg) |-> TextOf(reg[i])], <<>>)

\* the body of the loop over the blocks: the pairs of the blocks that parse
RECURSIVE ParseBlocks(_)
ParseBlocks(blocks) ==
    IF blocks = <<>> THEN <<>>
    ELSE LET children == Children(Head(blocks))
             rest == ParseBlocks(Tail(blocks))
         IN  IF Len(children) < 2 THEN rest
             ELSE LET label == Trim(children[1].text)
                      speakerName == IF label # <<>> THEN label ELSE Unknown
                      others == Tail(children)
                      textParts ==
                          Join([i \in 1..Len(others) |-> others[i].text], <<" ">>)
                      text == Normalize(textParts)
                  IN  IF text # <<>>
                      THEN <<[speaker |-> speakerName, text |-> text]>> \o rest
                      ELSE rest

\* the fallback line for the whole region, if it has text
Fallback(reg) ==
    LET fallback == Normalize(TextContent(reg))
    IN  IF fallback # <<>>
        THEN <<[speaker |-> System, text |-> fallback]>>
        ELSE <<>>

\* the fallback line is added whatever the blocks gave
ParseCaptionsAlwaysFallback(reg) == ParseBlocks(reg) \o Fallback(reg)

ParseCaptions(reg) ==
    LET results == ParseBlocks(reg)
    IN  IF results = <<>> THEN Fallback(reg) ELSE results

(***************************************************************************)
(* processCaptions: the reconcile loop over the parsed pairs.              *)
(***************************************************************************)
\* startsWith with its receiver and argument exchanged
IsContinuationSwapped(tr, prev, speaker, text) ==
    /\ prev # None
    /\ Len(tr) > 0
    /\ StartsWith(prev, text)
    /\ tr[Len(tr)].speaker = speaker

\* the last entry's speaker is not compared
IsContinuationAnySpeaker(tr, prev, speaker, text) ==
    /\ prev # None
    /\ Len(tr) > 0
    /\ StartsWith(text, prev)

\* any new text of the last entry's speaker amends that entry
IsContinuationAnyText(tr, prev, speaker, text) ==
    /\ prev # None
    /\ Len(tr) > 0
    /\ tr[Len(tr)].speaker = speaker

IsContinuation(tr, prev, speaker, text) ==
    /\ prev # None
    /\ Len(tr) > 0
    /\ StartsWith(text, prev)
    /\ tr[Len(tr)].speaker = speaker

\* a new entry is put in front of the transcript
ReconcilePairUnshift(s, pair, t, mid) ==
    LET prev == s.lastBySpeaker[pair.speaker]
        n    == Len(s.transcript)
    IN  IF pair.text = None \/ pair.text = prev
        THEN s
        ELSE [transcript |->
                 IF IsContinuation(s.transcript, prev, pair.speaker, pair.text)
                 THEN [s.transcript EXCEPT ![n].text = pair.text, ![n].ts = t]
                 ELSE <<Entry(t, pair.speaker, pair.text, mid)>>
                          \o s.transcript,
              lastBySpeaker |->
                 [s.lastBySpeaker EXCEPT ![pair.speaker] = pair.text],
              changed |-> TRUE]

\* one iteration of the for loop; s = [transcript, lastBySpeaker, changed]
ReconcilePair(s, pair, t, mid) ==
    LET prev == s.lastBySpeaker[pair.speaker]
        n    == Len(s.transcript)
    IN  IF pair.text = None \/ pair.text = prev
        THEN s
        ELSE [transcript |->
                 IF IsContinuation(s.transcript, prev, pair.speaker, pair.text)
                 THEN [s.transcript EXCEPT ![n].text = pair.text, ![n].ts = t]
                 ELSE Append(s.transcript,
                             Entry(t, pair.speaker, pair.text, mid)),
              lastBySpeaker |->
                 [s.lastBySpeaker EXCEPT ![pair.speaker] = pair.text],
              changed |-> TRUE]

RECURSIVE ReconcileAll(_, _, _, _)
ReconcileAll(s, entries, t, mid) ==
    IF entries = <<>>
    THEN s
    ELSE ReconcileAll(ReconcilePair(s, Head(entries), t, mid),
                      Tail(entries), t, mid)

\* reconcile from the session state s = [transcript, lastBySpeaker]
Reconcile(tr, last, entries, t, mid) ==
    ReconcileAll([transcript |-> tr, lastBySpeaker |-> last, changed |-> FALSE],
                 entries, t, mid)

\* no timer is started
ScheduleStorageFlushNever(timer) == timer

\* scheduleStorageFlush: a pending timer is kept, otherwise one is started
ScheduleStorageFlush(timer) == IF timer THEN timer ELSE TRUE

\* the flush timeout's callback: what chrome.storage.local.set stores
FlushedStorage(tr, mid) == [transcript |-> Some(tr), id |-> Some(mid)]

\* chrome.storage.local.remove of the transcript key / of both keys
RemoveTranscript(st) == [st EXCEPT !.transcript = None]
\* only the transcript key is removed, as the clear request does
RemoveBothKeepsId(st) == [st EXCEPT !.transcript = None]
RemoveBoth(st) == [transcript |-> None, id |-> None]

\* history only: a clear request is handled while the answer of init's
\* storage read is in flight; the entries in it now predate a clear
MarkOld(data) ==
    IF data = None \/ data[1].transcript = None
    THEN data
    ELSE Some([data[1] EXCEPT !.transcript =
                 Some([i \in 1..Len(data[1].transcript[1]) |->
                         [data[1].transcript[1][i] EXCEPT !.old = TRUE]])])

\* the latch is not looked at
TryNarrowObserverUnlatched(obs, latch, cont) ==
    IF cont = NoContainer
    THEN [observer |-> obs, latch |-> latch]
    ELSE [observer |-> cont, latch |-> TRUE]

\* tryNarrowObserver: [observer, latch] after the call
TryNarrowObserver(obs, latch, cont) ==
    IF latch \/ cont = NoContainer
    THEN [observer |-> obs, latch |-> latch]
    ELSE [observer |-> cont, latch |-> TRUE]

\* MutationObserver.disconnect(): the observer on target obs is taken out
RECURSIVE Disconnect(_, _)
Disconnect(conn, obs) ==
    IF conn = <<>> THEN <<>>
    ELSE IF Head(conn) = obs THEN Tail(conn)
    ELSE <<Head(conn)>> \o Disconnect(Tail(conn), obs)

\* the previous observer stays connected next to the narrow one
NarrowConnectionsKeepsPrevious(conn, obs, latch, cont) ==
    IF latch \/ cont = NoContainer THEN conn ELSE Append(conn, cont)

\* tryNarrowObserver: the connected observers after the call
NarrowConnections(conn, obs, latch, cont) ==
    IF latch \/ cont = NoContainer
    THEN conn
    ELSE Append(Disconnect(conn, obs), cont)

(***************************************************************************)
(* The browser's timeout table: one record per pending setTimeout, with    *)
(* the kind of its callback and the milliseconds left until it is due.     *)
(***************************************************************************)
SetTimeout(ts, kind, ms) == Append(ts, [kind |-> kind, left |-> ms])

\* clearTimeout of the timer the field holds: the one set last for the kind
RECURSIVE ClearTimeout(_, _)
ClearTimeout(ts, kind) ==
    IF ts = <<>> THEN <<>>
    ELSE IF ts[Len(ts)].kind = kind THEN SubSeq(ts, 1, Len(ts) - 1)
    ELSE Append(ClearTimeout(SubSeq(ts, 1, Len(ts) - 1), kind), ts[Len(ts)])

Pending(ts, kind) == SelectSeq(ts, LAMBDA x : x.kind = kind)
Due(ts, kind) == \E i \in 1..Len(ts) : ts[i].kind = kind /\ ts[i].left = 0

\* the timeout that fires leaves the table
RECURSIVE Fired(_, _)
Fired(ts, kind) ==
    IF ts = <<>> THEN <<>>
    ELSE IF Head(ts).kind = kind /\ Head(ts).left = 0 THEN Tail(ts)
    ELSE <<Head(ts)>> \o Fired(Tail(ts), kind)

Elapse(ts, ms) ==
    [i \in 1..Len(ts) |->
        [ts[i] EXCEPT !.left = IF @ > ms THEN @ - ms ELSE 0]]

\* the pending debounce timeout is left running
OnMutationTimeoutsNoClear(ts) == SetTimeout(ts, "debounce", DEBOUNCE_MS)

\* onMutation: clearTimeout, then setTimeout(processCaptions, DEBOUNCE_MS)
OnMutationTimeouts(ts) ==
    SetTimeout(ClearTimeout(ts, "debounce"), "debounce", DEBOUNCE_MS)

\* a timeout is started whether or not one is pending
ScheduleFlushTimeoutsUnguarded(field, ts) == SetTimeout(ts, "flush", FLUSH_MS)

\* scheduleStorageFlush, on the table: field is state.storageFlushTimer
ScheduleFlushTimeouts(field, ts) ==
    IF field THEN ts ELSE SetTimeout(ts, "flush", FLUSH_MS)

Min(a, b) == IF a < b THEN a ELSE b

\* the stored meeting id is not compared
RestoreAdoptsAnyMeeting(data, mid) == data.transcript # None

\* the condition under which init's storage callback adopts what it read
RestoreAdopts(data, mid) ==
    /\ data.id = Some(mid)
    /\ data.transcript # None

(***************************************************************************)
(* Initial state: init() has run; its storage read is in flight.           *)
(***************************************************************************)
\* what an earlier page load can have left in storage
StoredTranscripts == {<<>>, <<Entry(0, "Alice", <<1>>, StoredMeeting)>>}
InitStorage ==
    {[transcript |-> None, id |-> None],
     [transcript |-> None, id |-> Some(StoredMeeting)]}
    \cup {FlushedStorage(tr, StoredMeeting) : tr \in StoredTranscripts}

Started ==
    /\ location \in Meetings
    /\ meetingId = location
    /\ transcript = <<>>
    /\ lastBySpeaker = NoSpeakers
    /\ debounceTimer = FALSE
    /\ storageFlushTimer = FALSE
    /\ storage \in InitStorage
    /\ getData = Some(storage)
    /\ container \in {NoContainer, "c1"}
    /\ observer = TryNarrowObserver("body", FALSE, container).observer
    /\ narrowObserverAttached = TryNarrowObserver("body", FALSE, container).latch
    /\ event = Ev("init", <<>>, FALSE)
    /\ connected = NarrowConnections(<<"body">>, "body", FALSE, container)

Init ==
    /\ Started
    /\ now = 0
    /\ region = <<>>
    /\ unseen = FALSE
    /\ timeouts = <<>>
    /\ sinceMutation = DEBOUNCE_MS
    /\ sinceWrite = FLUSH_MS

(***************************************************************************)
(* Environment.                                                            *)
(***************************************************************************)
\* the user leaves for another call: the URL changes
Navigate ==
    /\ \E m \in Meetings \ {location} : location' = m
    /\ event' = Ev("env", <<>>, FALSE)
    /\ UNCHANGED <<transcript, lastBySpeaker, observer, debounceTimer,
                   storageFlushTimer, meetingId, narrowObserverAttached,
                   storage, getData, container, now,
                   connected>>

\* the page removes, empties, creates or fills a caption region outside
\* every observed subtree
DomChange ==
    /\ observer # "body"
    /\ \E c \in (Containers \cup {NoContainer}) \ {container} : container' = c
    /\ event' = Ev("env", <<>>, FALSE)
    /\ UNCHANGED <<transcript, lastBySpeaker, observer, debounceTimer,
                   storageFlushTimer, meetingId, narrowObserverAttached,
                   storage, getData, location, now,
                   connected>>

(***************************************************************************)
(* Handlers.                                                               *)
(***************************************************************************)
\* the broad observer's callback: any mutation under document.body, the
\* caption region being created, replaced or removed included
BroadMutation ==
    /\ observer = "body"
    /\ \E c \in Containers \cup {NoContainer} :
          /\ container' = c
          /\ observer' = TryNarrowObserver(observer, narrowObserverAttached, c).observer
          /\ narrowObserverAttached' =
                TryNarrowObserver(observer, narrowObserverAttached, c).latch
          /\ connected' =
                NarrowConnections(connected, observer, narrowObserverAttached, c)
    /\ debounceTimer' = TRUE
    /\ event' = Ev("onMutation", <<>>, FALSE)
    /\ UNCHANGED <<transcript, lastBySpeaker, storageFlushTimer, meetingId,
                   storage, getData, location, now>>

\* the narrow observer's callback: a mutation inside the observed container
\* (its captions change, or its content is emptied)
NarrowMutation ==
    /\ observer # "body"
    /\ observer = container
    /\ container' \in {container, NoContainer}
    /\ debounceTimer' = TRUE
    /\ event' = Ev("onMutation", <<>>, FALSE)
    /\ UNCHANGED <<transcript, lastBySpeaker, observer, storageFlushTimer,
                   meetingId, narrowObserverAttached, storage, getData,
                   location, now,
                   connected>>

\* the debounce timeout fires; what the parse yields is drawn from snaps,
\* what the wall clock shows from readings
ProcessCaptionsFrom(snaps, readings) ==
    /\ debounceTimer
    /\ debounceTimer' = FALSE
    /\ IF container = NoContainer
       THEN /\ event' = Ev("processCaptions", <<>>, FALSE)
            /\ UNCHANGED <<transcript, lastBySpeaker, storageFlushTimer, now>>
       ELSE \E entries \in snaps, t \in {x \in readings : x >= now} :
              LET r == Reconcile(transcript, lastBySpeaker, entries,
                                 FormatTime(t), meetingId)
              IN  /\ Len(r.transcript) <= MaxLen
                  /\ transcript' = r.transcript
                  /\ lastBySpeaker' = r.lastBySpeaker
                  /\ storageFlushTimer' =
                        IF r.changed THEN ScheduleStorageFlush(storageFlushTimer)
                                     ELSE storageFlushTimer
                  /\ now' = IF r.changed THEN t ELSE now
                  /\ event' = Ev("processCaptions", entries, r.changed)
    /\ UNCHANGED <<observer, meetingId, narrowObserverAttached, storage,
                   getData, location, container, connected>>

ProcessCaptions == ProcessCaptionsFrom(Snapshots, 0..MaxClock)

\* the flush timeout fires
StorageFlush ==
    /\ storageFlushTimer
    /\ storageFlushTimer' = FALSE
    /\ storage' = FlushedStorage(transcript, meetingId)
    /\ event' = Ev("storageFlush", <<>>, FALSE)
    /\ UNCHANGED <<transcript, lastBySpeaker, observer, debounceTimer, meetingId,
                   narrowObserverAttached, getData, location, container, now,
                   connected>>

\* the reset leaves the transcript in memory
HandleNavigationKeepsTranscript ==
    /\ IF location # meetingId
       THEN /\ transcript' = transcript
            /\ lastBySpeaker' = NoSpeakers
            /\ meetingId' = location
            /\ storage' = RemoveBoth(storage)
            /\ observer' = TryNarrowObserver(observer, FALSE, container).observer
            /\ narrowObserverAttached' =
                  TryNarrowObserver(observer, FALSE, container).latch
            /\ connected' = NarrowConnections(connected, observer, FALSE, container)
            /\ event' = Ev("handleNavigation", <<>>, TRUE)
       ELSE /\ event' = Ev("handleNavigation", <<>>, FALSE)
            /\ UNCHANGED <<transcript, lastBySpeaker, meetingId, storage,
                           observer, narrowObserverAttached, connected>>
    /\ UNCHANGED <<debounceTimer, storageFlushTimer, getData, location,
                   container, now>>

\* the 2 s navigation poll
HandleNavigation ==
    /\ IF location # meetingId
       THEN /\ transcript' = <<>>
            /\ lastBySpeaker' = NoSpeakers
            /\ meetingId' = location
            /\ storage' = RemoveBoth(storage)
            /\ observer' = TryNarrowObserver(observer, FALSE, container).observer
            /\ narrowObserverAttached' =
                  TryNarrowObserver(observer, FALSE, container).latch
            /\ connected' = NarrowConnections(connected, observer, FALSE, container)
            /\ event' = Ev("handleNavigation", <<>>, TRUE)
       ELSE /\ event' = Ev("handleNavigation", <<>>, FALSE)
            /\ UNCHANGED <<transcript, lastBySpeaker, meetingId, storage,
                           observer, narrowObserverAttached, connected>>
    /\ UNCHANGED <<debounceTimer, storageFlushTimer, getData, location,
                   container, now>>

\* the callback of init's chrome.storage.local.get
RestoreCallback ==
    /\ getData # None
    /\ getData' = None
    /\ IF RestoreAdopts(getData[1], meetingId)
       THEN /\ transcript' = getData[1].transcript[1]
            /\ event' = Ev("restore", <<>>, TRUE)
       ELSE /\ transcript' = transcript
            /\ event' = Ev("restore", <<>>, FALSE)
    /\ UNCHANGED <<lastBySpeaker, observer, debounceTimer, storageFlushTimer,
                   meetingId, narrowObserverAttached, storage, location,
                   container, now,
                   connected>>

\* the popup's getTranscript request: answered, nothing changes
GetTranscript ==
    /\ event' = Ev("getTranscript", <<>>, FALSE)
    /\ UNCHANGED <<transcript, lastBySpeaker, observer, debounceTimer,
                   storageFlushTimer, meetingId, narrowObserverAttached,
                   storage, getData, location, container, now,
                   connected>>

\* the popup's clear request
Clear ==
    /\ transcript' = <<>>
    /\ lastBySpeaker' = NoSpeakers
    /\ storage' = RemoveTranscript(storage)
    /\ event' = Ev("clear", <<>>, FALSE)
    /\ getData' = MarkOld(getData)
    /\ UNCHANGED <<observer, debounceTimer, storageFlushTimer, meetingId,
                   narrowObserverAttached, location, container, now,
                   connected>>

\* the engine with the timers as flags: a pending timeout may fire at any
\* time, and the text of the caption region is not followed
Next ==
    \/ Navigate /\ UNCHANGED aux
    \/ DomChange /\ UNCHANGED aux
    \/ BroadMutation /\ UNCHANGED aux
    \/ NarrowMutation /\ UNCHANGED aux
    \/ ProcessCaptions /\ UNCHANGED aux
    \/ StorageFlush /\ UNCHANGED aux
    \/ HandleNavigation /\ UNCHANGED aux
    \/ RestoreCallback /\ UNCHANGED aux
    \/ GetTranscript /\ UNCHANGED aux
    \/ Clear /\ UNCHANGED aux

Spec == Init /\ [][Next]_vars

(***************************************************************************)
(* parseCaptions on its own: the engine has started, a caption region with *)
(* any content within the bounds is handed to the parser once.             *)
(***************************************************************************)
InitParse ==
    /\ Started
    /\ location = StoredMeeting
    /\ storage = [transcript |-> None, id |-> None]
    /\ container = "c1"
    /\ now = 0
    /\ region \in Regions
    /\ unseen = TRUE
    /\ timeouts = <<>>
    /\ sinceMutation = DEBOUNCE_MS
    /\ sinceWrite = FLUSH_MS

ParseStep ==
    /\ event.op = "init"
    /\ event' = Ev("parseCaptions", ParseCaptions(region), FALSE)
    /\ UNCHANGED <<transcript, lastBySpeaker, observer, debounceTimer,
                   storageFlushTimer, meetingId, narrowObserverAttached,
                   storage, getData, location, container, now, connected>>
    /\ UNCHANGED aux

NextParse == ParseStep

SpecParse == InitParse /\ [][NextParse]_vars


(***************************************************************************)
(* Properties.                                                             *)
(***************************************************************************)
ProcessStep == event'.op = "processCaptions" /\ event'.entries # <<>>
Front(q) == SubSeq(q, 1, Len(q) - 1)
\* the session state in which processCaptions reaches the last parsed pair
BeforeLast ==
    Reconcile(transcript, lastBySpeaker, Front(event'.entries),
              FormatTime(now'), meetingId)
LastPair == event'.entries[Len(event'.entries)]

IsStrictExtension(t, p) == StartsWith(t, p) /\ t # p

\* old without its last entry is a prefix of new, and new is no shorter
KeepsEntries(old, new) ==
    /\ Len(new) >= Len(old)
    /\ \A i \in 1..(Len(old) - 1) : new[i] = old[i]

\* C1: in every step that is neither a clear request nor a meeting-id
\* change, the transcript without its last entry is a prefix of the new
\* transcript and the transcript does not get shorter.
C1_NeverDeleted ==
    [][(event'.op # "clear"
        /\ ~(event'.op = "handleNavigation" /\ event'.changed))
       => KeepsEntries(transcript, transcript')]_vars

\* C2: for every speaker S with lastBySpeaker[S] present, the transcript has
\* an entry by S and the latest such entry's text is lastBySpeaker[S].
C2_LastBySpeakerIsLatestText ==
    \A s \in Speakers :
        lastBySpeaker[s] # None =>
            \E i \in 1..Len(transcript) :
                /\ transcript[i].speaker = s
                /\ transcript[i].text = lastBySpeaker[s]
                /\ \A j \in (i + 1)..Len(transcript) : transcript[j].speaker # s

\* C3: no two adjacent entries have the same speaker with the later text a
\* strict extension of the earlier text.
C3_NoUnmergedContinuation ==
    \A i \in 1..(Len(transcript) - 1) :
        ~(/\ transcript[i + 1].speaker = transcript[i].speaker
          /\ IsStrictExtension(transcript[i + 1].text, transcript[i].text))

\* C4: in every reachable state and for every parsed sequence, a second
\* reconcile of the same sequence right after the first reports changed =
\* FALSE and leaves transcript and lastBySpeaker as the first left them.
C4_ReconcileIdempotent ==
    \A entries \in Snapshots :
        LET t  == FormatTime(now)
            r1 == Reconcile(transcript, lastBySpeaker, entries, t, meetingId)
            r2 == Reconcile(r1.transcript, r1.lastBySpeaker, entries, t,
                            meetingId)
        IN  /\ ~r2.changed
            /\ r2.transcript = r1.transcript
            /\ r2.lastBySpeaker = r1.lastBySpeaker

\* C5 (continuation law): when the last entry is by S, lastBySpeaker[S] = p
\* is present and the pair (S, t) arrives with t a strict extension of p,
\* then the length is unchanged, the last entry gets text t and the current
\* clock reading, earlier entries are unchanged, lastBySpeaker[S] = t and
\* changed is true.
C5_ContinuationLaw ==
    [][ProcessStep =>
        LET m == BeforeLast
            n == Len(m.transcript)
            S == LastPair.speaker
            t == LastPair.text
            p == m.lastBySpeaker[S]
        IN  (/\ n > 0
             /\ m.transcript[n].speaker = S
             /\ p # None
             /\ IsStrictExtension(t, p))
            => /\ Len(transcript') = n
               /\ transcript'[n] = [m.transcript[n] EXCEPT
                                      !.text = t, !.ts = FormatTime(now')]
               /\ \A i \in 1..(n - 1) : transcript'[i] = m.transcript[i]
               /\ lastBySpeaker'[S] = t
               /\ event'.changed
               /\ storageFlushTimer']_vars

\* Alice's Hi was pushed at 0 and flushed; a reconcile that received
\* (Alice, Hi there) at 1 has amended that entry
C5_Witness ==
    /\ event = Ev("processCaptions",
                  <<[speaker |-> "Alice", text |-> <<1, 2>>]>>, TRUE)
    /\ getData = None
    /\ storage = FlushedStorage(<<Entry(0, "Alice", <<1>>, meetingId)>>, meetingId)
    /\ transcript = <<Entry(1, "Alice", <<1, 2>>, meetingId)>>
    /\ lastBySpeaker["Alice"] = <<1, 2>>

\* the spec's four calls, from the empty state: Hi, Hi there, Hey (Bob),
\* Hi there everyone
Scenario ==
    LET call(s, speaker, text) ==
            Reconcile(s.transcript, s.lastBySpeaker,
                      <<[speaker |-> speaker, text |-> text]>>, 0, "m")
        s0 == [transcript |-> <<>>, lastBySpeaker |-> NoSpeakers]
        s1 == call(s0, "Alice", <<1>>)
        s2 == call(s1, "Alice", <<1, 2>>)
        s3 == call(s2, "Bob", <<4>>)
        s4 == call(s3, "Alice", <<1, 2, 3>>)
    IN  [i \in 1..Len(s4.transcript) |->
            <<s4.transcript[i].speaker, s4.transcript[i].text>>]

\* C6 (speaker switch / interjection law): when the pair (S, t) arrives with
\* t different from lastBySpeaker[S] and the last entry is by another
\* speaker, exactly one entry (S, t) is appended and every existing entry is
\* unchanged, also when t extends S's previous text; so the four calls of
\* the scenario leave Alice: Hi there, Bob: Hey, Alice: Hi there everyone.
C6_SpeakerSwitchLaw ==
    [][/\ Scenario = << <<"Alice", <<1, 2>>>>, <<"Bob", <<4>>>>,
                        <<"Alice", <<1, 2, 3>>>> >>
       /\ ProcessStep =>
            LET m == BeforeLast
                n == Len(m.transcript)
                S == LastPair.speaker
                t == LastPair.text
            IN  (/\ n > 0
                 /\ m.transcript[n].speaker # S
                 /\ t # None
                 /\ t # m.lastBySpeaker[S])
                => /\ transcript' =
                        Append(m.transcript,
                               Entry(FormatTime(now'), S, t, meetingId))
                   /\ lastBySpeaker'[S] = t
                   /\ event'.changed]_vars

\* a reconcile that received (Bob, Hi) has appended it behind Alice's entry
C6_Witness ==
    /\ event = Ev("processCaptions", <<[speaker |-> "Bob", text |-> <<1>>]>>, TRUE)
    /\ Len(transcript) = 2
    /\ transcript[1].speaker = "Alice"
    /\ lastBySpeaker["Alice"] = transcript[1].text
    /\ transcript[2].speaker = "Bob"
    /\ transcript[2].text = <<1>>
    /\ lastBySpeaker["Bob"] = <<1>>

\* C7 (turn-break law): when lastBySpeaker[S] = p is present and the pair
\* (S, t) arrives with t non-empty and p no prefix of t, exactly one entry
\* (S, t) is appended and every earlier entry keeps speaker, text and
\* timestamp.
C7_TurnBreakLaw ==
    [][ProcessStep =>
        LET m == BeforeLast
            S == LastPair.speaker
            t == LastPair.text
            p == m.lastBySpeaker[S]
        IN  (/\ p # None
             /\ t # None
             /\ ~StartsWith(t, p))
            => /\ transcript' =
                    Append(m.transcript,
                           Entry(FormatTime(now'), S, t, meetingId))
               /\ lastBySpeaker'[S] = t
               /\ event'.changed]_vars

\* a reconcile that received one pair appended it behind the same speaker's
\* longer text
C7_Witness ==
    /\ event = Ev("processCaptions", <<[speaker |-> "Alice", text |-> <<1>>]>>, TRUE)
    /\ Len(transcript) = 2
    /\ transcript[1].speaker = "Alice"
    /\ transcript[2].speaker = "Alice"
    /\ transcript[1].text = <<1, 2>>
    /\ transcript[2].text = <<1>>
    /\ transcript[1].ts < transcript[2].ts

PollStep == event'.op = "handleNavigation"
ResetsSession ==
    /\ transcript' = <<>>
    /\ lastBySpeaker' = NoSpeakers
    /\ meetingId' = location
    /\ storage' = [transcript |-> None, id |-> None]

\* C8 as claimed: a poll that sees another meeting id leaves an empty
\* session under the new id, the storage keys removed and the latch cleared;
\* a poll that sees the same id changes nothing.
C8_ResetLawLatchCleared ==
    [][PollStep =>
        IF location # meetingId
        THEN ResetsSession /\ ~narrowObserverAttached'
        ELSE UNCHANGED <<session, storage, narrowObserverAttached, observer>>]_vars

\* C8 (reset law), amended: the latch is cleared and the container located
\* again in the same step, so the latch ends set, with the observer on the
\* container, exactly when a caption container is present at that moment.
C8_ResetLaw ==
    [][PollStep =>
        IF location # meetingId
        THEN /\ ResetsSession
             /\ narrowObserverAttached' = (container # NoContainer)
             /\ observer' = IF container # NoContainer THEN container ELSE observer
        ELSE UNCHANGED <<session, storage, narrowObserverAttached, observer>>]_vars

\* a poll has reset the session while a caption container was present and
\* the flush of an earlier change was still pending
C8_Witness ==
    /\ event.op = "handleNavigation"
    /\ event.changed
    /\ narrowObserverAttached
    /\ observer = container
    /\ transcript = <<>>
    /\ storage = [transcript |-> None, id |-> None]
    /\ storageFlushTimer

RestoreStep == event'.op = "restore"

\* C9 (restore guard): the restore callback changes the transcript only to
\* the stored one and only if the stored meeting id is the current
\* meetingId, and every transcript entry was pushed or persisted under the
\* current meetingId.
C9_RestoreGuard ==
    [][/\ RestoreStep =>
            /\ getData[1].id # Some(meetingId) => transcript' = transcript
            /\ transcript' # transcript =>
                  /\ getData[1].transcript # None
                  /\ transcript' = getData[1].transcript[1]
       /\ \A i \in 1..Len(transcript') : transcript'[i].mid = meetingId']_vars

\* the callback found a transcript stored under another meeting id and left
\* the entries in memory alone
C9_Witness ==
    /\ event.op = "restore"
    /\ ~event.changed
    /\ storage = FlushedStorage(<<Entry(0, "Alice", <<1>>, StoredMeeting)>>,
                                StoredMeeting)
    /\ meetingId # StoredMeeting
    /\ Len(transcript) > 0

\* C10: no entry pushed before a clear request is in the transcript or in
\* storage after it.
C10_ClearedEntriesStayGone ==
    /\ \A i \in 1..Len(transcript) : ~transcript[i].old
    /\ storage.transcript # None =>
          \A i \in 1..Len(storage.transcript[1]) : ~storage.transcript[1][i].old

(***************************************************************************)
(* The engine with the caption text followed: unseen tells whether the     *)
(* caption region holds text that no reconcile has read.  The page is      *)
(* loaded in the last second of a day, with one speaker talking; a         *)
(* reconcile may find the clock a second later, past midnight.  The        *)
(* browser runs every pending timeout, the interval poll and the storage   *)
(* callback eventually; the page, the user and the popup owe nothing.      *)
(***************************************************************************)
LiveSnapshots == {<<[speaker |-> "Alice", text |-> t]>> : t \in Texts}
LiveReadings == {DaySeconds - 1, DaySeconds}

InitLive ==
    /\ Started
    /\ now = DaySeconds - 1
    /\ region = <<>>
    /\ unseen = (container # NoContainer)
    /\ timeouts = <<>>
    /\ sinceMutation = DEBOUNCE_MS
    /\ sinceWrite = FLUSH_MS

\* a region that appears holds text that was not read yet
LiveDomChange ==
    /\ DomChange
    /\ unseen' = (container' # NoContainer)
    /\ UNCHANGED <<parsing, timing>>

\* the text of a caption region changes that no observer watches
StrayMutation ==
    /\ container # NoContainer
    /\ observer # "body"
    /\ observer # container
    /\ unseen' = TRUE
    /\ event' = Ev("unobserved", <<>>, FALSE)
    /\ UNCHANGED <<transcript, lastBySpeaker, observer, debounceTimer,
                   storageFlushTimer, meetingId, narrowObserverAttached,
                   storage, getData, location, container, now, connected>>
    /\ UNCHANGED <<parsing, timing>>

LiveBroadMutation ==
    /\ BroadMutation
    /\ unseen' = (container' # NoContainer)
    /\ UNCHANGED <<parsing, timing>>

LiveNarrowMutation ==
    /\ NarrowMutation
    /\ unseen' = (container' # NoContainer)
    /\ UNCHANGED <<parsing, timing>>

\* processCaptions reads the whole caption region, if there is one
LiveProcessCaptions ==
    /\ ProcessCaptionsFrom(LiveSnapshots, LiveReadings)
    /\ unseen' = IF container = NoContainer THEN unseen ELSE FALSE
    /\ UNCHANGED <<parsing, timing>>

NextLive ==
    \/ Navigate /\ UNCHANGED aux
    \/ LiveDomChange
    \/ StrayMutation
    \/ LiveBroadMutation
    \/ LiveNarrowMutation
    \/ LiveProcessCaptions
    \/ StorageFlush /\ UNCHANGED aux
    \/ HandleNavigation /\ UNCHANGED aux
    \/ RestoreCallback /\ UNCHANGED aux
    \/ GetTranscript /\ UNCHANGED aux
    \/ Clear /\ UNCHANGED aux

FairLive ==
    /\ WF_vars(LiveProcessCaptions)
    /\ WF_vars(StorageFlush /\ UNCHANGED aux)
    /\ WF_vars(HandleNavigation /\ UNCHANGED aux)
    /\ WF_vars(RestoreCallback /\ UNCHANGED aux)

SpecLive == InitLive /\ [][NextLive]_vars /\ FairLive

(***************************************************************************)
(* The engine with the timers timed: a timeout fires when its delay has    *)
(* elapsed, or later.  Time advances in steps of TickMs; one speaker       *)
(* talks; storage is empty at startup.                                     *)
(***************************************************************************)
InitTimed ==
    /\ Started
    /\ storage = [transcript |-> None, id |-> None]
    /\ now = 0
    /\ region = <<>>
    /\ unseen = FALSE
    /\ timeouts = <<>>
    /\ sinceMutation = DEBOUNCE_MS
    /\ sinceWrite = FLUSH_MS

Tick ==
    /\ timeouts' = Elapse(timeouts, TickMs)
    /\ sinceMutation' = Min(sinceMutation + TickMs, DEBOUNCE_MS)
    /\ sinceWrite' = Min(sinceWrite + TickMs, FLUSH_MS)
    /\ event' = Ev("tick", <<>>, FALSE)
    /\ UNCHANGED <<transcript, lastBySpeaker, observer, debounceTimer,
                   storageFlushTimer, meetingId, narrowObserverAttached,
                   storage, getData, location, container, now, connected,
                   region, unseen>>

TimedBroadMutation ==
    /\ BroadMutation
    /\ timeouts' = OnMutationTimeouts(timeouts)
    /\ sinceMutation' = 0
    /\ UNCHANGED <<region, unseen, sinceWrite>>

TimedNarrowMutation ==
    /\ NarrowMutation
    /\ timeouts' = OnMutationTimeouts(timeouts)
    /\ sinceMutation' = 0
    /\ UNCHANGED <<region, unseen, sinceWrite>>

TimedProcessCaptions ==
    /\ Due(timeouts, "debounce")
    /\ ProcessCaptionsFrom(LiveSnapshots, {now})
    /\ timeouts' =
          IF event'.changed
          THEN ScheduleFlushTimeouts(storageFlushTimer,
                                     Fired(timeouts, "debounce"))
          ELSE Fired(timeouts, "debounce")
    /\ UNCHANGED <<region, unseen, sinceMutation, sinceWrite>>

TimedStorageFlush ==
    /\ Due(timeouts, "flush")
    /\ StorageFlush
    /\ timeouts' = Fired(timeouts, "flush")
    /\ sinceWrite' = 0
    /\ UNCHANGED <<region, unseen, sinceMutation>>

NextTimed ==
    \/ Tick
    \/ Navigate /\ UNCHANGED aux
    \/ DomChange /\ UNCHANGED aux
    \/ TimedBroadMutation
    \/ TimedNarrowMutation
    \/ TimedProcessCaptions
    \/ TimedStorageFlush
    \/ HandleNavigation /\ UNCHANGED aux
    \/ RestoreCallback /\ UNCHANGED aux
    \/ GetTranscript /\ UNCHANGED aux
    \/ Clear /\ UNCHANGED aux

FairTimed ==
    /\ WF_vars(Tick)
    /\ WF_vars(TimedProcessCaptions)
    /\ WF_vars(TimedStorageFlush)
    /\ WF_vars(HandleNavigation /\ UNCHANGED aux)
    /\ WF_vars(RestoreCallback /\ UNCHANGED aux)

SpecTimed == InitTimed /\ [][NextTimed]_vars /\ FairTimed

(***************************************************************************)
(* The parser's contract, stated on the region and the returned pairs.     *)
(***************************************************************************)
\* the words of a text: its maximal runs of non-whitespace characters
RECURSIVE WordsFrom(_, _)
WordsFrom(t, word) ==
    IF t = <<>> THEN (IF word = <<>> THEN <<>> ELSE <<word>>)
    ELSE IF Head(t) \in Whitespace
         THEN (IF word = <<>> THEN <<>> ELSE <<word>>) \o WordsFrom(Tail(t), <<>>)
         ELSE WordsFrom(Tail(t), Append(word, Head(t)))
Words(t) == WordsFrom(t, <<>>)

\* the words of several texts that a separator keeps apart
RECURSIVE WordsOfAll(_)
WordsOfAll(texts) ==
    IF texts = <<>> THEN <<>> ELSE Words(Head(texts)) \o WordsOfAll(Tail(texts))

\* whitespace-normalized: single spaces only, and only between words
IsNormalized(t) ==
    /\ \A i \in 1..Len(t) : t[i] \in Whitespace => t[i] = " "
    /\ t # <<>> => t[1] # " " /\ t[Len(t)] # " "
    /\ \A i \in 1..(Len(t) - 1) : ~(t[i] = " " /\ t[i + 1] = " ")

\* t is the whitespace-normalized form of a text with the words ws
IsNormalFormOf(t, ws) == IsNormalized(t) /\ Words(t) = ws

\* the texts of a block's child elements after the first
SpokenParts(block) ==
    LET others == Tail(Children(block))
    IN  [i \in 1..Len(others) |-> others[i].text]

\* at least two child elements and non-empty normalized text
WellFormed(block) ==
    /\ Len(Children(block)) >= 2
    /\ WordsOfAll(SpokenParts(block)) # <<>>

\* the index of the k-th well-formed block of the region
NthWellFormed(reg, k) ==
    CHOOSE i \in 1..Len(reg) :
        /\ WellFormed(reg[i])
        /\ Cardinality({j \in 1..i : WellFormed(reg[j])}) = k

\* C11 (parser fallback law): with no well-formed block the parse is the
\* single pair (System, normalized full text) if that text is non-empty and
\* empty otherwise; with a well-formed block it is one pair per well-formed
\* block, in block order, none of them the fallback; no pair has empty text.
C11_ParserFallbackLaw ==
    event.op = "parseCaptions" =>
        LET res == event.entries
            wf  == {i \in 1..Len(region) : WellFormed(region[i])}
            all == Words(TextContent(region))
        IN  /\ wf = {} /\ all # <<>> =>
                /\ Len(res) = 1
                /\ res[1].speaker = System
                /\ IsNormalFormOf(res[1].text, all)
            /\ wf = {} /\ all = <<>> => res = <<>>
            /\ wf # {} =>
                /\ Len(res) = Cardinality(wf)
                /\ \A k \in 1..Len(res) :
                      LET block == region[NthWellFormed(region, k)]
                          label == Children(block)[1].text
                      IN  /\ res[k].speaker # System
                          /\ Words(res[k].speaker) =
                                IF Words(label) = <<>> THEN <<Unknown>>
                                                       ELSE Words(label)
                          /\ IsNormalFormOf(res[k].text,
                                            WordsOfAll(SpokenParts(block)))
            /\ \A k \in 1..Len(res) : res[k].text # <<>>

\* a region of two blocks was parsed: the first has a single child element
\* and is skipped, the second has an empty label and two text parts
C11_Witness ==
    /\ event.op = "parseCaptions"
    /\ Len(region) = 2
    /\ Len(Children(region[1])) = 1
    /\ TextOf(region[1]) # <<>>
    /\ Len(Children(region[2])) = 3
    /\ event.entries = <<[speaker |-> Unknown, text |-> <<"a", " ", "a">>]>>

(***************************************************************************)
(* Observer lifecycle and timers.                                          *)
(***************************************************************************)
\* the timestamps, as times of day, do not decrease along the transcript
Chronological(tr) == \A i \in 1..(Len(tr) - 1) : tr[i].ts <= tr[i + 1].ts

\* C12 as claimed: under a non-decreasing clock the timestamps of the
\* transcript are non-decreasing in sequence order in every reachable state.
C12_TimestampsNonDecreasing == Chronological(transcript)

\* C12 (chronological order), amended: the timestamps are times of day, so
\* they are non-decreasing in sequence order as long as the clock has not
\* passed midnight since the earliest entry was stamped.
C12_TimestampsNonDecreasingWithinDay ==
    now < DaySeconds => Chronological(transcript)

\* a reconcile has put a second entry behind an entry restored from storage,
\* on the day the restored entry was stamped
C12_Witness ==
    /\ event.op = "processCaptions"
    /\ event.changed
    /\ now < DaySeconds
    /\ Len(transcript) = 2
    /\ getData = None
    /\ transcript[1].ts < transcript[2].ts

\* the captions of region c have just changed, observed or not
Mutating(c) == container = c /\ event.op \in {"onMutation", "unobserved"}

\* C13 (re-attachment after a meeting change): if the captions of a region
\* keep mutating, then whenever that region is present while the latch is
\* clear (a meeting change was detected and no region has been found
\* since), eventually the observer is on it and its text has been
\* reconciled, unless the region goes away.
C13_ReattachAfterMeetingChange ==
    \A c \in Containers :
        []<>Mutating(c) =>
            ((container = c /\ ~narrowObserverAttached)
                ~> ((observer = c /\ ~unseen) \/ container # c))

\* C14 (no fatal state within a session): if the captions of a region keep
\* mutating, then whenever that region is present after the observer was
\* narrowed to another element, its text is eventually reconciled, unless
\* the region goes away.
C14_ContainerLossIsTransient ==
    \A c \in Containers :
        []<>Mutating(c) =>
            ((container = c /\ narrowObserverAttached /\ observer # c)
                ~> (~unseen \/ container # c))

\* C16 (flush liveness): every reconcile that reports a change is eventually
\* followed by a storage write, and with that write storage holds the
\* transcript and the meeting id as they are when the timer fires.
C16_ChangeIsEventuallyPersisted ==
    (event.op = "processCaptions" /\ event.changed)
        ~> (/\ event.op = "storageFlush"
            /\ storage = FlushedStorage(transcript, meetingId))

\* the flush of a reconciled entry has fired
C16_Witness ==
    /\ event.op = "storageFlush"
    /\ Len(transcript) > 0
    /\ storage = FlushedStorage(transcript, meetingId)
    /\ ~storageFlushTimer

\* the pending flush / debounce timeouts
FlushTimeouts == Pending(timeouts, "flush")
DebounceTimeouts == Pending(timeouts, "debounce")
\* the step writes a transcript to storage
WritesTranscript == storage' # storage /\ storage'.transcript # None

\* C15 (flush coalescing): at most one flush timeout is pending; a reconcile
\* that runs while one is pending starts no second one and leaves its
\* deadline alone; a transcript is written to storage only when the flush
\* timeout fires, a full flush period or more after the previous write.
C15_FlushCoalescing ==
    /\ [](Len(FlushTimeouts) <= 1)
    /\ [][/\ (event'.op = "processCaptions" /\ FlushTimeouts # <<>>)
                => FlushTimeouts' = FlushTimeouts
          /\ WritesTranscript => event'.op = "storageFlush"
          /\ event'.op = "storageFlush"
                => /\ Due(timeouts, "flush")
                   /\ sinceWrite = FLUSH_MS
                   /\ FlushTimeouts' = <<>>]_vars

\* a reconcile reported a change while the flush timeout of an earlier
\* change had run for a part of its period
C15_Witness ==
    /\ event.op = "processCaptions"
    /\ event.changed
    /\ Len(transcript) = 2
    /\ FlushTimeouts = <<[kind |-> "flush", left |-> FLUSH_MS - TickMs]>>
    /\ storage.transcript = None

\* C17 (debounce): every mutation leaves exactly one debounce timeout
\* pending, with the full delay ahead; processCaptions runs only when that
\* timeout fires, a full delay after the last mutation, and leaves none
\* pending, so a burst followed by quiet gives one run; if the mutations
\* stop, the run eventually happens.
C17_Debounce ==
    /\ [](Len(DebounceTimeouts) <= 1)
    /\ [][/\ event'.op = "onMutation"
                => DebounceTimeouts' =
                      <<[kind |-> "debounce", left |-> DEBOUNCE_MS]>>
          /\ event'.op = "processCaptions"
                => /\ Due(timeouts, "debounce")
                   /\ sinceMutation = DEBOUNCE_MS
                   /\ DebounceTimeouts' = <<>>]_vars
    /\ <>[](sinceMutation = DEBOUNCE_MS) => <>[](DebounceTimeouts = <<>>)

\* processCaptions has run, a full delay after the last mutation, and has
\* started the flush timeout; no debounce timeout is left
C17_Witness ==
    /\ event.op = "processCaptions"
    /\ event.changed
    /\ Len(transcript) = 1
    /\ DebounceTimeouts = <<>>
    /\ sinceMutation = DEBOUNCE_MS
    /\ FlushTimeouts = <<[kind |-> "flush", left |-> FLUSH_MS]>>

\* the poll has detected another meeting id in this step
MeetingChange == event'.op = "handleNavigation" /\ event'.changed

\* C18 (narrowing latch): the observer is re-scoped only by a call that
\* finds the latch clear and a container, and that call sets the latch, so
\* between two meeting-id changes it is re-scoped at most once; with the
\* latch set a call changes neither observer nor latch; a call that finds
\* no container changes nothing.
C18_NarrowingLatch ==
    [][/\ (observer' # observer \/ connected' # connected)
            => /\ ~narrowObserverAttached \/ MeetingChange
               /\ narrowObserverAttached'
               /\ observer' = container'
               /\ container' # NoContainer
       /\ narrowObserverAttached /\ ~MeetingChange
            => UNCHANGED <<observer, narrowObserverAttached, connected>>
       /\ \A c \in Containers \cup {NoContainer} :
            /\ TryNarrowObserver(observer, TRUE, c) =
                  [observer |-> observer, latch |-> TRUE]
            /\ NarrowConnections(connected, observer, TRUE, c) = connected
       /\ TryNarrowObserver(observer, narrowObserverAttached, NoContainer) =
            [observer |-> observer, latch |-> narrowObserverAttached]
       /\ (event'.op = "onMutation" /\ container' = NoContainer)
            => UNCHANGED <<observer, narrowObserverAttached, connected>>]_vars

\* the body observer's callback has found caption region c2 and narrowed
\* the observer to it; the debounce timeout it started is pending
C18_Witness ==
    /\ event.op = "onMutation"
    /\ narrowObserverAttached
    /\ observer = "c2"
    /\ container = "c2"
    /\ connected = <<"c2">>
    /\ debounceTimer

\* C19 (single live observer): at most one mutation observer is connected,
\* it is the one state.observer holds, so the broad and a narrow observer,
\* or the narrow observers of two meetings, are never connected together.
C19_SingleObserver ==
    /\ Len(connected) <= 1
    /\ connected = <<observer>>

\* the poll has detected a meeting change and narrowed the observer to the
\* caption region present then; the observer it replaced is disconnected
C19_Witness ==
    /\ event.op = "handleNavigation"
    /\ event.changed
    /\ observer = "c2"
    /\ connected = <<"c2">>
    /\ getData = None

\* every entry of tr was recorded under the meeting id mid
RecordedUnder(tr, mid) == \A i \in 1..Len(tr) : tr[i].mid = mid

\* C20 (meeting consistency of storage): a stored transcript is stored with
\* the meeting id its entries were recorded under; a storage write stores
\* the entries of the meeting id in force; a meeting change leaves no
\* transcript in storage, and a flush pending then writes no entry of the
\* old meeting.
C20_StorageMeetingConsistency ==
    /\ [](storage.transcript # None =>
            /\ storage.id # None
            /\ RecordedUnder(storage.transcript[1], storage.id[1]))
    /\ [](RecordedUnder(transcript, meetingId))
    /\ [][/\ WritesTranscript => storage' = FlushedStorage(transcript', meetingId')
          /\ MeetingChange => storage'.transcript = None]_vars

\* storage held a transcript of another meeting at startup (the answer of
\* init's read is still in flight); a flush has now written one entry under
\* the meeting id in force
C20_Witness ==
    /\ event.op = "storageFlush"
    /\ meetingId # StoredMeeting
    /\ storage.id = Some(meetingId)
    /\ storage.transcript # None
    /\ Len(storage.transcript[1]) = 1
    /\ getData # None
    /\ getData[1].transcript # None
    /\ Len(getData[1].transcript[1]) = 1

====
